---- MODULE Spec2Model ----
(***************************************************************************)
(* The AstroDate component (src/src/Pages/Dashboard/AstroDate.jsx) as a    *)
(* state machine.  A state is what the component holds between two turns   *)
(* of the browser's event loop: the five useState cells, the invocations   *)
(* of fetchNasaHistory that are suspended at one of its two awaits, and    *)
(* the time zone of the browser, which toLocaleDateString reads.           *)
(*                                                                         *)
(* Encoding of JavaScript values:                                          *)
(*   - a nullable string (resultText, error) is NULL or Str(s), s a TLA+   *)
(*     string;                                                             *)
(*   - the value of the date input is EmptyValue ('') or <<d>>, d the day  *)
(*     ordinal of the YYYY-MM-DD string the control produces;              *)
(*   - a Date is the number of hours since the epoch, UTC.                 *)
(***************************************************************************)
EXTENDS Integers, Sequences, FiniteSets, TLC

VARIABLES
    selectedDate,  \* useState, line 6
    resultText,    \* useState, line 12
    sources,       \* useState, line 13
    isLoading,     \* useState, line 16
    error,         \* useState, line 17
    requests,      \* invocations of fetchNasaHistory suspended at an await
    tz,            \* the browser's offset from UTC, in hours
    issued,        \* history: number of fetch() calls made so far
    settled,       \* history: number of invocations that ran to their end
    resultDob,     \* history: the dob of the request that set resultText
    lastSettle     \* history: how the last invocation to end was answered

vars == <<selectedDate, resultText, sources, isLoading, error, requests, tz,
          issued, settled, resultDob, lastSettle>>

-----------------------------------------------------------------------------
(* Bounds of the model *)

MaxDate == 2        \* the date input offers the days 1..MaxDate
MaxRequests == 3    \* fetch() is called at most this many times in a run

-----------------------------------------------------------------------------
(* Values *)

NULL == <<>>
Str(s) == <<s>>

EmptyValue == <<>>
Dates == {<<d>> : d \in 1..MaxDate}
DateValues == Dates \cup {EmptyValue}

TimeZones == {-5, 0, 5}

Statuses == {200, 404, 500}
NetworkFaults == {"Failed to fetch"}
ParseFaults == {"Unexpected end of JSON input"}

Titles == {"", "Pillars of Creation"}
Explanations == {"Star-forming columns of gas."}
Urls == {"https://apod.nasa.gov/p.jpg"}

\* The JSON bodies of the backend: an object whose apod member is absent or null
\* (NULL) or an object {title, explanation, url}.
Apods == [title : Titles, explanation : Explanations, url : Urls]
Bodies == {[apod |-> NULL]} \cup {[apod |-> <<a>>] : a \in Apods}

\* s contains sub as a substring
Contains(s, sub) ==
    \E i \in 1..(Len(s) - Len(sub) + 1) : SubSeq(s, i, i + Len(sub) - 1) = sub

-----------------------------------------------------------------------------
(* Pure parts of the component *)

\* response.ok
ResponseOk(status) == status >= 200 /\ status <= 299

\* variant: the message leaves the status out
HttpErrorMessageNoStatus(status) == "Failed with status"

\* `Failed with status: ${response.status}`
HttpErrorMessage(status) == "Failed with status: " \o ToString(status)

\* `Failed to fetch NASA data: ${err.message}`
CatchMessage(message) == "Failed to fetch NASA data: " \o message

\* the em dash U+2014 of line 36, which a TLA+ string cannot hold
EmDash == "--"

\* `${data.apod.title} <em dash> ${data.apod.explanation}`
ApodText(apod) == apod.title \o " " \o EmDash \o " " \o apod.explanation

\* variant: the title is taken as it is, without the || "NASA APOD"
ApodSourcesNoFallback(apod) == << [uri |-> apod.url, title |-> apod.title] >>

\* [{ uri: data.apod.url, title: data.apod.title || "NASA APOD" }]
ApodSources(apod) ==
    << [uri |-> apod.url,
        title |-> IF apod.title # "" THEN apod.title ELSE "NASA APOD"] >>

NoApodText == "No APOD data available for this date."

\* new Date('YYYY-MM-DD'): a date-only string is midnight UTC of that day
NewDate(d) == d[1] * 24

\* toLocaleDateString: the calendar day of the instant in the browser's zone
ToLocaleDateString(instant) == <<"date", (instant + tz) \div 24>>

\* useMemo, lines 67-74
FormatDate(d) ==
    IF d # EmptyValue THEN ToLocaleDateString(NewDate(d))
                      ELSE <<"Selected Date">>

formattedResultDate == FormatDate(selectedDate)

\* variant: disabled={!selectedDate}
ButtonDisabledIgnoresLoading == selectedDate = EmptyValue

\* disabled={isLoading || !selectedDate}
ButtonDisabled == isLoading \/ selectedDate = EmptyValue

\* {resultText && (...)}: the result panel is rendered
ResultPanelShown == resultText # NULL /\ resultText # Str("")

-----------------------------------------------------------------------------
(* Operations *)

Init ==
    /\ selectedDate \in Dates
    /\ resultText = NULL
    /\ sources = <<>>
    /\ isLoading = FALSE
    /\ error = NULL
    /\ requests = {}
    /\ tz \in TimeZones
    /\ issued = 0
    /\ settled = 0
    /\ resultDob = EmptyValue
    /\ lastSettle = [kind |-> "none"]

\* variant: a new date also dismisses the error panel
OnChangeClearsError(value) ==
    /\ selectedDate' = value
    /\ error' = NULL
    /\ UNCHANGED <<resultText, sources, isLoading, requests, issued, settled,
                   resultDob>>

\* onChange={(e) => setSelectedDate(e.target.value)}
OnChange(value) ==
    /\ selectedDate' = value
    /\ UNCHANGED <<resultText, sources, isLoading, error, requests, issued,
                   settled, resultDob>>

\* variant: line 22, setError(null), is missing
ResetRequestStateKeepsError ==
    /\ isLoading' = TRUE
    /\ resultText' = NULL
    /\ sources' = <<>>
    /\ UNCHANGED error

\* variant: line 23, setResultText(null), is missing
ResetRequestStateKeepsResult ==
    /\ isLoading' = TRUE
    /\ error' = NULL
    /\ sources' = <<>>
    /\ UNCHANGED resultText

\* lines 21-24
ResetRequestState ==
    /\ isLoading' = TRUE
    /\ error' = NULL
    /\ resultText' = NULL
    /\ sources' = <<>>

\* fetchNasaHistory up to its first await, the fetch() call of line 28
FetchNasaHistory(date) ==
    /\ ResetRequestState
    /\ requests' = requests \cup {[id |-> issued + 1, dob |-> date, at |-> "fetch"]}
    /\ issued' = issued + 1
    /\ resultDob' = EmptyValue
    /\ UNCHANGED <<selectedDate, settled>>

\* variant: no check of selectedDate
HandleSearchUnchecked == FetchNasaHistory(selectedDate)

\* lines 58-64
HandleSearch ==
    IF selectedDate # EmptyValue
    THEN FetchNasaHistory(selectedDate)
    ELSE /\ error' = Str("Please select a valid date.")
         /\ UNCHANGED <<selectedDate, resultText, sources, isLoading, requests,
                        issued, settled, resultDob>>

\* variant: line 54, setIsLoading(false), is missing
FinishKeepsLoading(r) ==
    /\ requests' = requests \ {r}
    /\ settled' = settled + 1
    /\ UNCHANGED <<selectedDate, issued, isLoading>>

\* setIsLoading(false), line 54, and the return of the async function
Finish(r) ==
    /\ isLoading' = FALSE
    /\ requests' = requests \ {r}
    /\ settled' = settled + 1
    /\ UNCHANGED <<selectedDate, issued>>

\* variant: setIsLoading(false) is the last statement of the try block
CatchKeepsLoading(r, message) ==
    /\ error' = Str(CatchMessage(message))
    /\ requests' = requests \ {r}
    /\ settled' = settled + 1
    /\ UNCHANGED <<resultText, sources, resultDob, selectedDate, issued, isLoading>>

\* the catch block, lines 49-52, then line 54
Catch(r, message) ==
    /\ error' = Str(CatchMessage(message))
    /\ UNCHANGED <<resultText, sources, resultDob>>
    /\ Finish(r)

\* lines 34-48, then line 54
Success(r, data) ==
    /\ IF data.apod # NULL
       THEN /\ resultText' = Str(ApodText(data.apod[1]))
            /\ sources' = ApodSources(data.apod[1])
       ELSE /\ resultText' = Str(NoApodText)
            /\ UNCHANGED sources
    /\ resultDob' = r.dob
    /\ UNCHANGED error
    /\ Finish(r)

-----------------------------------------------------------------------------
(* Events *)

\* the user picks another value in the date input
ChangeDate ==
    \E value \in DateValues :
        /\ value # selectedDate
        /\ OnChange(value)
        /\ UNCHANGED <<tz, lastSettle>>

\* the user clicks the search button, which React ignores while it is disabled
ClickSearch ==
    /\ ~ButtonDisabled
    /\ issued < MaxRequests
    /\ HandleSearch
    /\ UNCHANGED <<tz, lastSettle>>

\* fetch() rejects: a network fault
FetchRejects ==
    \E r \in requests, message \in NetworkFaults :
        /\ r.at = "fetch"
        /\ Catch(r, message)
        /\ lastSettle' = [kind |-> "network", message |-> message]
        /\ UNCHANGED tz

\* fetch() resolves with a response: lines 29-32
FetchResolves ==
    \E r \in requests, status \in Statuses :
        /\ r.at = "fetch"
        /\ IF ~ResponseOk(status)
           THEN /\ Catch(r, HttpErrorMessage(status))
                /\ lastSettle' = [kind |-> "status", status |-> status]
           ELSE /\ requests' = (requests \ {r}) \cup {[r EXCEPT !.at = "json"]}
                /\ UNCHANGED <<selectedDate, resultText, sources, isLoading, error,
                               issued, settled, resultDob, lastSettle>>
        /\ UNCHANGED tz

\* response.json() rejects: the body is not JSON
JsonRejects ==
    \E r \in requests, message \in ParseFaults :
        /\ r.at = "json"
        /\ Catch(r, message)
        /\ lastSettle' = [kind |-> "parse", message |-> message]
        /\ UNCHANGED tz

\* response.json() resolves with the parsed body
JsonResolves ==
    \E r \in requests, data \in Bodies :
        /\ r.at = "json"
        /\ Success(r, data)
        /\ lastSettle' = [kind |-> "body", data |-> data]
        /\ UNCHANGED tz

Settle == FetchRejects \/ FetchResolves \/ JsonRejects \/ JsonResolves

Next == ChangeDate \/ ClickSearch \/ FetchRejects \/ FetchResolves
           \/ JsonRejects \/ JsonResolves

Spec == Init /\ [][Next]_vars

\* every pending promise of the network layer settles
FairSpec == Spec /\ WF_vars(Settle)

\* handleSearch called whatever the button's disabled attribute says: the
\* handler's own contract, which the rendered button narrows
InvokeHandleSearch ==
    /\ issued < MaxRequests
    /\ HandleSearch
    /\ UNCHANGED <<tz, lastSettle>>

HandlerNext == ChangeDate \/ InvokeHandleSearch \/ FetchRejects \/ FetchResolves
                  \/ JsonRejects \/ JsonResolves

HandlerSpec == Init /\ [][HandlerNext]_vars

-----------------------------------------------------------------------------
(* Properties *)

InFlight == Cardinality(requests)

\* a step in which an invocation of fetchNasaHistory runs to its end
Settles == settled' = settled + 1

\* a step in which fetch() is called
Dispatches == issued' = issued + 1

Failed(s) == s.kind \in {"status", "network", "parse"}

FailureDetail(s) == IF s.kind = "status" THEN ToString(s.status) ELSE s.message

\* C1: in every reachable state at most one of resultText and error is
\* non-null.
C1_ResultXorError == ~(resultText # NULL /\ error # NULL)

\* a result is on display, the date is empty and two requests have settled
C1_Witness ==
    /\ settled >= 2 /\ resultText # NULL /\ error = NULL
    /\ selectedDate = EmptyValue

\* C2: isLoading is true only while a request dispatched by fetchNasaHistory
\* has neither resolved nor rejected; with no request in flight it is false.
C2_LoadingOnlyInFlight == isLoading => requests # {}

\* a request has settled, none is in flight and isLoading is false again
C2_Witness == settled >= 1 /\ requests = {} /\ ~isLoading

\* C3: a search with a non-empty date sets isLoading in the step that
\* dispatches the request; if requests settle, isLoading becomes false again;
\* and isLoading falls exactly in the steps in which a request settles, once
\* for each search.
C3_LoadingLifecycle ==
    /\ [][Dispatches => isLoading']_vars
    /\ (isLoading ~> ~isLoading)
    /\ [][(isLoading /\ ~isLoading') <=> Settles]_vars
    /\ [](settled <= issued /\ (~isLoading => settled = issued))

\* every search of the run has been made and has settled, each way of failing
\* included
C3_Witness == issued = MaxRequests /\ settled = issued /\ ~isLoading /\ Failed(lastSettle)

\* C4: when a request settles with a 2xx status and a parseable body, then
\* with an apod object resultText is title, " <em dash> ", explanation and
\* sources is the one citation {uri: url, title: title or "NASA APOD" when the
\* title is empty}; without apod resultText is the fixed text and sources is
\* empty; in both cases error is null.
C4_SuccessShape ==
    [][(Settles /\ lastSettle'.kind = "body") =>
         LET apod == lastSettle'.data.apod IN
         /\ error' = NULL
         /\ IF apod # NULL
            THEN /\ resultText' = Str(apod[1].title \o " " \o EmDash \o " "
                                        \o apod[1].explanation)
                 /\ Len(sources') = 1
                 /\ sources'[1].uri = apod[1].url
                 /\ sources'[1].title = (IF apod[1].title = "" THEN "NASA APOD"
                                                              ELSE apod[1].title)
            ELSE /\ resultText' = Str("No APOD data available for this date.")
                 /\ sources' = <<>>]_vars

\* a body whose apod has an empty title has been rendered
C4_Witness ==
    /\ lastSettle.kind = "body" /\ lastSettle.data.apod # NULL
    /\ lastSettle.data.apod[1].title = ""
    /\ resultText # NULL /\ Len(sources) = 1 /\ ~isLoading

\* C5: when a request fails (non-2xx status, network fault, parse fault),
\* error is a message that contains the failure detail (the status number,
\* the fault's message), resultText is null and sources is empty.
C5_FailureShape ==
    [][(Settles /\ Failed(lastSettle')) =>
         /\ error' # NULL
         /\ Contains(error'[1], FailureDetail(lastSettle'))
         /\ resultText' = NULL
         /\ sources' = <<>>]_vars

\* a search that followed a displayed result has failed with status 500
C5_Witness ==
    /\ lastSettle.kind = "status" /\ lastSettle.status = 500
    /\ settled >= 2 /\ ~isLoading
    /\ error # NULL /\ Contains(error[1], "500")

\* C6: handleSearch called while the date is empty issues no request and
\* sets error to 'Please select a valid date.'.
C6_EmptyDateSearch ==
    [][(InvokeHandleSearch /\ selectedDate = EmptyValue) =>
         /\ error' = Str("Please select a valid date.")
         /\ issued' = issued
         /\ requests' = requests]_vars

\* the validation message is on display for an empty date
C6_Witness == selectedDate = EmptyValue /\ error = Str("Please select a valid date.")

\* C7: at most one request is in flight; every search issues exactly one
\* request, and none is issued before the previous one has settled.
C7_SingleFlight ==
    /\ [](InFlight <= 1)
    /\ [][Dispatches => requests = {} /\ InFlight' = 1]_vars

\* a second search is in flight and the date was changed after its dispatch,
\* so only isLoading keeps the button disabled
C7_Witness ==
    /\ issued >= 2 /\ InFlight = 1 /\ selectedDate # EmptyValue
    /\ \E r \in requests : r.dob # selectedDate

\* C8: while isLoading is true, resultText is null, sources is empty and
\* error is null; when the request settles the state has exactly one of the
\* shapes success (resultText non-null, error null) and error (error
\* non-null, resultText null).
C8_Lifecycle ==
    /\ [](isLoading => resultText = NULL /\ sources = <<>> /\ error = NULL)
    /\ [][Settles => \/ (resultText' # NULL /\ error' = NULL)
                      \/ (error' # NULL /\ resultText' = NULL)]_vars

\* a search is loading after an earlier search left a result or an error
C8_Witness == isLoading /\ settled >= 1 /\ resultText = NULL /\ error = NULL

\* C9: a step that changes selectedDate changes nothing else of the
\* component and issues no request; hence no search and no settlement
\* changes selectedDate.
C9_DateChangeFrame ==
    [][selectedDate' # selectedDate =>
         UNCHANGED <<resultText, sources, error, isLoading, requests, issued,
                     settled>>]_vars

\* a result is on display under a date other than the one searched for
C9_Witness == ResultPanelShown /\ ~isLoading /\ resultDob # selectedDate

\* C10: while the result panel is shown, the date of its header is the date
\* that was sent as dob in the request that produced resultText.
C10_HeaderIsRequestDate == ResultPanelShown => formattedResultDate = FormatDate(resultDob)

====
